---- MODULE Spec2Model ----
(***************************************************************************)
(* State-machine model of the AiOps platform frontend:                     *)
(*   - AuthProvider   (frontend/src/contexts/AuthContext.tsx)              *)
(*   - api            (services/api, unnamed/part_002)                     *)
(*   - Layout/Dashboard (unnamed/part_000)                                 *)
(*   - Chat           (unnamed/part_001)                                   *)
(* A React state cell is a variable; an event handler, or the part of an   *)
(* async function between two awaits, is one action.  Several setState     *)
(* calls of one handler are batched: the last value written wins.          *)
(***************************************************************************)
EXTENDS Integers, Sequences, FiniteSets, Bags, TLC

\* ---------------------------------------------------------------- bounds
MaxClock == 2
MaxRecords == 2
MaxInFlight == 1
MaxMessages == 2
MaxNotifs == 1

\* ------------------------------------------------------- values and dates
Users == {"u1", "u2"}
NoUser == "null"
NoToken == "null"

\* A Date's time value; NaN is the time value of an Invalid Date.
NaN == -1
\* What V8 makes of new Date('0'): midnight, 1 January 2000 (the origin of
\* the model's clock, so that every clock reading is later).
Y2K == 0

\* Strings that hold a time: the output of toISOString, the literal '0',
\* and null (no such item in localStorage).
ISO(t) == [kind |-> "iso", v |-> t]
Lit0 == [kind |-> "lit", v |-> 0]
NullItem == [kind |-> "null", v |-> 0]

VARIABLES
  now,             \* wall clock, ms after Y2K (Date.now())
  dateZero,        \* time value of new Date('0') in this browser
  token,           \* localStorage 'token'
  clearStamp,      \* localStorage 'clearHistory_<id>', by <id>
  authHeader,      \* axios.defaults.headers.common['Authorization']
  user,            \* AuthProvider: user
  authLoading,     \* AuthProvider: loading
  authReqs,        \* AuthProvider: axios requests awaiting their response
  navPending,      \* window.location.href was assigned: a page load follows
  store,           \* the backend's request records
  dashMounted,     \* Dashboard is rendered
  requests,        \* Dashboard: requests
  loading,         \* Dashboard: loading
  error,           \* Dashboard: error
  clearDialogOpen, \* Dashboard: clearDialogOpen
  clearing,        \* Dashboard: clearing
  clearSuccess,    \* Dashboard: clearSuccess
  refreshing,      \* Dashboard: refreshing
  fetches,         \* Dashboard: fetchRequests calls awaiting getRequests()
  dhist,           \* history: the last Dashboard operation and its inputs
  chatPhase,       \* Chat: "new" (not rendered yet), "mounted" or "gone"
  messages,        \* Chat: messages
  inputValue,      \* Chat: inputValue
  ws,              \* Chat: ws
  connected,       \* Chat: connected
  processing,      \* Chat: processing
  notifications,   \* Chat: notifications
  showTextInput,   \* Chat: showTextInput
  sockState,       \* the WebSocket that connectWebSocket created
  timers,          \* pending setTimeout callbacks, by notification id
  chist,           \* history: the last Chat operation and its inputs
  awaiting,        \* the connection: a chat_message sent on it has no reply yet
  otherTab,        \* the Chat of a second browser tab of the same user
  missed           \* server: a completion event found no open connection

authVars == <<token, authHeader, user, authLoading, authReqs, navPending>>
dashState == <<requests, loading, error, clearDialogOpen, clearing,
               clearSuccess, refreshing>>
dashVars == <<now, dateZero, clearStamp, store, dashMounted, dashState,
              fetches, dhist>>
chatState == <<messages, inputValue, ws, connected, processing, notifications,
               showTextInput>>
chatVars == <<chatPhase, chatState, sockState, timers, chist, awaiting, otherTab,
              missed>>
vars == <<authVars, dashVars, chatVars>>

\* -------------------------------------------------------------- helpers
Range(s) == {s[i] : i \in 1..Len(s)}

\* Every order in which a finite set can be listed.
Perms(S) ==
  {s \in [1..Cardinality(S) -> S] : \A i, j \in 1..Cardinality(S) : s[i] = s[j] => i = j}

RECURSIVE BagOfSeq(_)
\* The bag of a sequence's elements.
BagOfSeq(s) == IF s = <<>> THEN EmptyBag ELSE SetToBag({Head(s)}) (+) BagOfSeq(Tail(s))

RECURSIVE SeqOfBag(_)
\* Some listing of a bag's elements.
SeqOfBag(B) ==
  IF B = EmptyBag THEN <<>>
  ELSE LET x == CHOOSE y \in BagToSet(B) : TRUE
       IN <<x>> \o SeqOfBag(B (-) SetToBag({x}))

\* The bag of F(x), x in bag B.
MapBag(F(_), B) == LET s == SeqOfBag(B) IN BagOfSeq([i \in 1..Len(s) |-> F(s[i])])

RECURSIVE SelectSeqBy(_, _)
\* Array.prototype.filter with the predicate "time value in K".
SelectSeqBy(s, K) ==
  IF s = <<>> THEN <<>>
  ELSE IF Head(s) \in K THEN <<Head(s)>> \o SelectSeqBy(Tail(s), K)
       ELSE SelectSeqBy(Tail(s), K)

\* `clearHistory_${user?.id}`: the key's suffix.
UserKey(u) == IF u = NoUser THEN "undefined" ELSE u
StampKeys == Users \cup {"undefined"}

\* new Date(s).getTime()
NewDate(s) ==
  IF s.kind = "iso" THEN s.v
  ELSE IF s.kind = "lit" THEN dateZero
  ELSE NaN

\* a > b on two Dates: false when either is Invalid.
DateGreater_ge(a, b) == a # NaN /\ b # NaN /\ a >= b
DateGreater(a, b) == a # NaN /\ b # NaN /\ a > b

\* Dashboard.getClearTimestamp
GetClearTimestamp(u) ==
  IF clearStamp[UserKey(u)] = NullItem THEN Lit0 ELSE clearStamp[UserKey(u)]

\* The filter of fetchRequests.
FilterRequests(data, stamp) ==
  LET keep == {r \in Range(data) : DateGreater(NewDate(r.created_at), NewDate(stamp))}
  IN SelectSeqBy(data, keep)

\* ------------------------------------------------------------ AuthProvider
AuthReq(k, w) == [kind |-> k, who |-> w]

\* The effect at AuthProvider's mount: read the token, fetch the profile.
AuthMountEffect ==
  IF token # NoToken
  THEN /\ authHeader' = token
       /\ authReqs' = {AuthReq("profile", token)}
       /\ authLoading' = TRUE
  ELSE /\ authHeader' = NoToken
       /\ authReqs' = {}
       /\ authLoading' = FALSE

\* verifyOTP up to its first await: POST /auth/verify-otp for user u.  The
\* login form is offered when nobody is logged in and submits one call at
\* a time.
VerifyOTPStart(u) ==
  /\ user = NoUser /\ ~authLoading /\ ~navPending
  /\ authReqs = {}
  /\ authReqs' = authReqs \cup {AuthReq("verify", u)}
  /\ UNCHANGED <<token, authHeader, user, authLoading, navPending>>

\* verifyOTP after the POST resolved: store the token, call fetchProfile.
VerifyOTPOk(r) ==
  /\ r \in authReqs /\ r.kind = "verify"
  /\ token' = r.who
  /\ authHeader' = r.who
  /\ authReqs' = (authReqs \ {r}) \cup {AuthReq("profile", r.who)}
  /\ UNCHANGED <<user, authLoading, navPending>>

\* verifyOTP when the POST is rejected: the exception leaves verifyOTP.
VerifyOTPFail(r) ==
  /\ r \in authReqs /\ r.kind = "verify"
  /\ authReqs' = authReqs \ {r}
  /\ UNCHANGED <<token, authHeader, user, authLoading, navPending>>

\* fetchProfile after GET /auth/profile resolved (r.who: the Authorization
\* header the request was sent with, which the backend resolves to a user).
FetchProfileOk(r) ==
  /\ r \in authReqs /\ r.kind = "profile" /\ r.who # NoToken
  /\ user' = r.who
  /\ authLoading' = FALSE
  /\ authReqs' = authReqs \ {r}
  /\ UNCHANGED <<token, authHeader, navPending>>

\* fetchProfile when the GET is rejected.
FetchProfileFail(r) ==
  /\ r \in authReqs /\ r.kind = "profile"
  /\ token' = NoToken
  /\ authHeader' = NoToken
  /\ authLoading' = FALSE
  /\ authReqs' = authReqs \ {r}
  /\ UNCHANGED <<user, navPending>>

\* AuthProvider.logout
AuthLogout ==
  /\ token' = NoToken
  /\ authHeader' = NoToken
  /\ user' = NoUser

\* localStorage's clearHistory_* items after logout, which removes 'token'
\* alone.
StampsAfterLogout_wiped == [k \in DOMAIN clearStamp |-> NullItem]
StampsAfterLogout == clearStamp

\* ---------------------------------------------------------------- backend
Resp(k, st, d) == [kind |-> k, status |-> st, data |-> d]
IsSuccess(r) == r.kind \in {"wrapped", "bare", "nodata"}

\* The records the backend held at some instant of a call sent at t0: all
\* those created before t0, and those created up to some t in t0-1..now.
Snapshots(t0) == {{rec \in store : rec.created_at.v <= t} : t \in (t0 - 1)..now}

\* What GET /infrastructure/requests can answer to a call sent at t0 with
\* token a: the records in any order, as {requests: [...]} or as a bare
\* array; an empty body; a body that is no list; an error status; or no
\* response at all (status 0: the backend is unreachable).
Responses(a, t0) ==
  LET errors == {Resp("error", st, <<>>) : st \in {0, 401, 403, 404}}
      lists == UNION {{Resp(k, 200, d) : k \in {"wrapped", "bare"}, d \in Perms(S)} :
                      S \in Snapshots(t0)}
      other == {Resp("nodata", 200, <<>>), Resp("malformed", 200, <<>>)}
  IN IF a \in Users THEN errors \cup lists \cup other ELSE errors

\* ------------------------------------------------------- Dashboard history
\* op: the last operation; resp: the response its call settled with; raced:
\* a clearHistory ran while the call awaited.
NoResp == Resp("none", 0, <<>>)
DHist(op, r, raced) == [op |-> op, resp |-> r, raced |-> raced]
DNote(op) == DHist(op, NoResp, FALSE)

\* --------------------------------------------------------------- Dashboard
DashInitialState ==
  /\ requests' = <<>>
  /\ loading' = TRUE
  /\ error' = ""
  /\ clearDialogOpen' = FALSE
  /\ clearing' = FALSE
  /\ clearSuccess' = FALSE
  /\ refreshing' = FALSE

CanFetch == BagCardinality(fetches) < MaxInFlight

\* infrastructureAPI.getRequests(): the request interceptor adds the token.
NewFetch == [live |-> TRUE, auth |-> token, sentAt |-> now, raced |-> FALSE]

\* Leaving the page's component tree: pending calls keep running, but their
\* state updates are dropped.
OrphanOf(f) == [live |-> FALSE, auth |-> NoToken, sentAt |-> 0, raced |-> FALSE]
Orphaned(fs) == MapBag(OrphanOf, fs)

\* Dashboard is rendered (for a resolved user) and its effect runs
\* fetchRequests up to the await.
DashboardMount ==
  /\ ~dashMounted /\ user \in Users /\ authReqs = {} /\ ~authLoading /\ ~navPending
  /\ CanFetch
  /\ dashMounted' = TRUE
  /\ DashInitialState
  /\ fetches' = fetches (+) SetToBag({NewFetch})
  /\ dhist' = DNote("other")
  /\ UNCHANGED <<authVars, now, dateZero, clearStamp, store>>
  /\ UNCHANGED chatVars

\* The user navigates away from the Dashboard.
DashboardUnmount ==
  /\ dashMounted
  /\ dashMounted' = FALSE
  /\ DashInitialState
  /\ fetches' = Orphaned(fetches)
  /\ dhist' = DNote("other")
  /\ UNCHANGED <<authVars, now, dateZero, clearStamp, store>>
  /\ UNCHANGED chatVars

\* The table (and its buttons) is rendered unless the loading screen is.
TableShown == dashMounted /\ ~(loading /\ requests = <<>>)

\* Dashboard.handleRefresh
HandleRefresh ==
  /\ TableShown /\ ~refreshing
  /\ CanFetch
  /\ refreshing' = TRUE
  /\ loading' = TRUE
  /\ error' = ""
  /\ fetches' = fetches (+) SetToBag({NewFetch})
  /\ dhist' = DNote("other")
  /\ UNCHANGED <<authVars, now, dateZero, clearStamp, store, dashMounted,
                 requests, clearDialogOpen, clearing, clearSuccess>>
  /\ UNCHANGED chatVars

\* Alert onClose={() => setError('')}
DismissError ==
  /\ TableShown /\ error # ""
  /\ error' = ""
  /\ dhist' = DNote("other")
  /\ UNCHANGED <<authVars, now, dateZero, clearStamp, store, dashMounted,
                 requests, loading, clearDialogOpen, clearing, clearSuccess,
                 refreshing, fetches>>
  /\ UNCHANGED chatVars

\* Snackbar/Alert onClose={() => setClearSuccess(false)}
DismissClearSuccess ==
  /\ TableShown /\ clearSuccess
  /\ clearSuccess' = FALSE
  /\ dhist' = DNote("other")
  /\ UNCHANGED <<authVars, now, dateZero, clearStamp, store, dashMounted,
                 requests, loading, error, clearDialogOpen, clearing,
                 refreshing, fetches>>
  /\ UNCHANGED chatVars

\* The "Clear History" button: shown while requests is non-empty.
OpenClearDialog ==
  /\ TableShown /\ requests # <<>> /\ ~clearing /\ ~clearDialogOpen
  /\ clearDialogOpen' = TRUE
  /\ dhist' = DNote("other")
  /\ UNCHANGED <<authVars, now, dateZero, clearStamp, store, dashMounted,
                 requests, loading, error, clearing, clearSuccess,
                 refreshing, fetches>>
  /\ UNCHANGED chatVars

\* Dialog onClose / Cancel
CancelClearDialog ==
  /\ TableShown /\ clearDialogOpen
  /\ clearDialogOpen' = FALSE
  /\ dhist' = DNote("other")
  /\ UNCHANGED <<authVars, now, dateZero, clearStamp, store, dashMounted,
                 requests, loading, error, clearing, clearSuccess,
                 refreshing, fetches>>
  /\ UNCHANGED chatVars

\* Dashboard.setClearTimestamp
SetClearTimestamp(u) == [clearStamp EXCEPT ![UserKey(u)] = ISO(now)]

\* The records clearHistory leaves in the backend: it calls no endpoint
\* on its try path, and only getRequests (through fetchRequests) in catch.
StoreAfterClear_deleted == store \ Range(requests)
StoreAfterClear == store

\* error after the catch block of clearHistory: setError('Failed to clear
\* history') is followed, in the same handler, by the setError('') of the
\* fetchRequests it calls.
ErrorAfterFailedClear ==
  LET afterCatch == "Failed to clear history"
      afterFetchRequests == ""
  IN afterFetchRequests

\* History: a pending call of the rendered Dashboard saw a clearHistory.
RacedOf(f) == [f EXCEPT !.raced = f.live]

\* Dashboard.clearHistory (the dialog's confirm button).  writeFails: the
\* localStorage.setItem of setClearTimestamp throws.
ClearHistory(writeFails) ==
  /\ TableShown /\ clearDialogOpen /\ ~clearing
  /\ clearing' = FALSE
  /\ clearDialogOpen' = FALSE
  /\ store' = StoreAfterClear
  /\ IF ~writeFails
     THEN /\ clearStamp' = SetClearTimestamp(user)
          /\ requests' = <<>>
          /\ clearSuccess' = TRUE
          /\ fetches' = MapBag(RacedOf, fetches)
          /\ dhist' = DNote("clearOk")
          /\ UNCHANGED <<loading, error>>
     ELSE /\ CanFetch
          /\ error' = ErrorAfterFailedClear
          /\ loading' = TRUE
          /\ fetches' = fetches (+) SetToBag({NewFetch})
          /\ dhist' = DNote("clearFailed")
          /\ UNCHANGED <<clearStamp, requests, clearSuccess>>
  /\ UNCHANGED <<authVars, now, dateZero, dashMounted, refreshing>>
  /\ UNCHANGED chatVars

\* api's response interceptor on an error response.
Interceptor(r) ==
  IF r.kind = "error" /\ r.status = 401
  THEN /\ token' = NoToken
       /\ navPending' = TRUE
  ELSE UNCHANGED <<token, navPending>>

\* requests after the try block of fetchRequests succeeded on response r.
RequestsAfterFetch_unfiltered(r, u) == r.data
RequestsAfterFetch(r, u) == FilterRequests(r.data, GetClearTimestamp(u))

\* error after the catch block of fetchRequests.
ErrorAfterFetch_no403(r) ==
  IF r.kind = "error" /\ r.status = 401
    THEN "Authentication failed. Please log in again."
  ELSE IF r.kind = "error" /\ r.status \in {403, 404}
    THEN error
  ELSE "Failed to fetch requests. Please try again."
ErrorAfterFetch(r) ==
  IF r.kind = "error" /\ r.status = 401
    THEN "Authentication failed. Please log in again."
  ELSE IF r.kind = "error" /\ r.status = 403
    THEN "You do not have permission to view infrastructure requests."
  ELSE IF r.kind = "error" /\ r.status = 404
    THEN error
  ELSE "Failed to fetch requests. Please try again."

\* fetchRequests after the await: try, catch and finally.
\* The call of f settles with response r.
FetchResolve(f, r) ==
  /\ f \in BagToSet(fetches) /\ f.live
  /\ r \in Responses(f.auth, f.sentAt)
  /\ fetches' = fetches (-) SetToBag({f})
  /\ Interceptor(r)
  /\ IF IsSuccess(r)
     THEN /\ requests' = RequestsAfterFetch(r, user)
          /\ UNCHANGED error
     ELSE /\ requests' = IF r.kind = "error" /\ r.status = 404
                         THEN <<>> ELSE requests
          /\ error' = ErrorAfterFetch(r)
  /\ loading' = FALSE
  /\ refreshing' = FALSE
  /\ dhist' = DHist("fetchDone", r, f.raced)
  /\ UNCHANGED <<authHeader, user, authLoading, authReqs, now, dateZero,
                 clearStamp, store, dashMounted, clearDialogOpen, clearing,
                 clearSuccess>>
  /\ UNCHANGED chatVars

\* A getRequests call of a Dashboard that is no longer rendered settles with
\* response r: the interceptor runs, the state updates go nowhere.
OrphanResolve(f, r) ==
  /\ f \in BagToSet(fetches) /\ ~f.live
  /\ r \in Responses(NoToken, 0) \cup {Resp("nodata", 200, <<>>)}
  /\ fetches' = fetches (-) SetToBag({f})
  /\ Interceptor(r)
  /\ dhist' = DNote("other")
  /\ UNCHANGED <<authHeader, user, authLoading, authReqs, now, dateZero,
                 clearStamp, store, dashMounted, dashState>>
  /\ UNCHANGED chatVars

\* Layout.handleBackToLogin: logout(), then navigate('/login').
HandleBackToLogin ==
  /\ user # NoUser
  /\ AuthLogout
  /\ dashMounted' = FALSE
  /\ DashInitialState
  /\ fetches' = Orphaned(fetches)
  /\ clearStamp' = StampsAfterLogout
  /\ dhist' = DNote("other")
  /\ UNCHANGED <<authLoading, authReqs, navPending, now, dateZero, store>>
  /\ UNCHANGED chatVars

\* The document is loaded anew (the navigation the interceptor asked for,
\* or a reload): pending calls die with the old document, every component
\* state starts over, localStorage stays.
PageLoad ==
  /\ user' = NoUser
  /\ AuthMountEffect
  /\ navPending' = FALSE
  /\ dashMounted' = FALSE
  /\ DashInitialState
  /\ fetches' = EmptyBag
  /\ dhist' = DNote("other")
  /\ UNCHANGED <<token, now, dateZero, clearStamp, store>>
  /\ UNCHANGED chatVars

\* ------------------------------------------------------------- environment
Tick ==
  /\ now < MaxClock
  /\ now' = now + 1
  /\ dhist' = DNote("other")
  /\ UNCHANGED <<authVars, dateZero, clearStamp, store, dashMounted, dashState, fetches>>
  /\ UNCHANGED chatVars

\* The provisioning backend records a new request, created now.
BackendCreate ==
  /\ Cardinality(store) < MaxRecords
  /\ [created_at |-> ISO(now)] \notin store
  /\ store' = store \cup {[created_at |-> ISO(now)]}
  /\ dhist' = DNote("other")
  /\ UNCHANGED <<authVars, now, dateZero, clearStamp, dashMounted, dashState, fetches>>
  /\ UNCHANGED chatVars

AuthStep(A) ==
  /\ A
  /\ dhist' = DNote("other")
  /\ UNCHANGED <<now, dateZero, clearStamp, store, dashMounted, dashState, fetches>>
  /\ UNCHANGED chatVars

\* ----------------------------------------------------------------- Chat
\* Chat (part_001).  The component is rendered once per page; its WebSocket
\* is the one connectWebSocket creates in the mount effect.  sockState is the
\* socket itself ("none", "connecting", "open", "errored": error event
\* delivered and close event still to come, "closed"); ws and connected are
\* what the component believes about it.  A message keeps the fields the
\* component reads (type, content, buttons); a missing buttons field and an
\* empty array are both <<>>, which every reader treats alike (line 330).
NoSocket == "null"
TheSocket == "websocket"
DefaultDuration == 5000
ButtonValues == {"aws", "gcp"}
InputTexts == {"", " ", "aws"}

\* String.prototype.trim on the texts the user can type.
Trim(s) == IF s = " " THEN "" ELSE s

Message(type, content, buttons) ==
  [type |-> type, content |-> content, buttons |-> buttons]

\* A frame from the server, after JSON.parse.  Fields a frame does not carry
\* are "absent"; show_text_input is "true", "false" or "absent"; a popup's
\* duration is 0 when absent (popup.duration || 5000 treats both alike).
Frame(type, buttons, sti, ptype, url) ==
  [type |-> type, buttons |-> buttons, sti |-> sti, ptype |-> ptype, url |-> url,
   duration |-> 0]

ChatResponses ==
  {Frame("chat_response", b, s, "absent", "absent") :
     b \in {<<>>, <<"aws", "gcp">>}, s \in {"true", "false", "absent"}}

PopupFrames ==
  {Frame("popup_notification", <<>>, "absent", "absent", "absent"),
   [Frame("popup_notification", <<>>, "absent", "error", "absent")
      EXCEPT !.duration = 1000]}

DeploymentFrames ==
  {Frame("deployment_complete", <<>>, "absent", "absent", "console")}

UnknownFrames == {Frame("status_update", <<>>, "absent", "absent", "absent")}

Frames == ChatResponses \cup PopupFrames \cup DeploymentFrames \cup UnknownFrames

\* History of the last Chat operation: what it was, the frame it sent
\* ("none" if it sent nothing), the frame it received, the input mode and
\* the number of messages it started from, and the notification id it was
\* about (0 if none).
NoFrame == Frame("none", <<>>, "absent", "absent", "absent")
CHist(op, sent, frame) ==
  [op |-> op, sent |-> sent, frame |-> frame,
   prevShow |-> showTextInput, prevLen |-> Len(messages), id |-> 0]
CNote(op) ==
  [op |-> op, sent |-> "none", frame |-> NoFrame, prevShow |-> TRUE, prevLen |-> 0,
   id |-> 0]
CNoteId(op, id) == [CNote(op) EXCEPT !.id = id]

Mounted == chatPhase = "mounted"

\* setMessages(prev => [...prev, newMessage]) against a closure's own copy.
AddMessage_staleClosure(prev, m) == <<m>>

\* addMessage: setMessages(prev => [...prev, newMessage]).
AddMessage(prev, m) == Append(prev, m)

\* connectWebSocket opens a socket whatever localStorage holds.
HasToken_always == TRUE

\* connectWebSocket: if (!token) return
HasToken == token # NoToken

\* The mount effect: connectWebSocket creates the socket and setWs stores it.
ChatMount ==
  /\ chatPhase = "new"
  /\ chatPhase' = "mounted"
  /\ IF HasToken
       THEN ws' = TheSocket /\ sockState' = "connecting"
       ELSE UNCHANGED <<ws, sockState>>
  /\ chist' = CNote("other")
  /\ UNCHANGED <<messages, inputValue, connected, processing, notifications,
                 showTextInput, timers>>
  /\ UNCHANGED <<authVars, dashVars, otherTab, missed, awaiting>>

\* The ws the mount effect's cleanup closes over: the first render's.
CleanupWs == NoSocket

\* Unmount: the cleanup of the mount effect runs; the state cells of the
\* instance are never written again.
ChatUnmount ==
  /\ Mounted
  /\ chatPhase' = "gone"
  /\ sockState' = IF CleanupWs # NoSocket THEN "closed" ELSE sockState
  /\ chist' = CNote("other")
  /\ UNCHANGED <<chatState, timers>>
  /\ UNCHANGED <<authVars, dashVars, otherTab, missed, awaiting>>

\* websocket.onopen
SocketOpen ==
  /\ sockState = "connecting"
  /\ sockState' = "open"
  /\ connected' = IF Mounted THEN TRUE ELSE connected
  /\ chist' = CNote("other")
  /\ UNCHANGED <<chatPhase, messages, inputValue, ws, processing, notifications,
                 showTextInput, timers>>
  /\ UNCHANGED <<authVars, dashVars, otherTab, missed, awaiting>>

\* setShowTextInput(!!data.show_text_input)
ShowTextInputAfter_truthy(frame) == frame.sti = "true"

\* setShowTextInput(data.show_text_input !== false)
ShowTextInputAfter(frame) == frame.sti # "false"

\* showPopupNotification builds the notification from the popup it is given.
Notification(ptype, duration, url) ==
  [id |-> now,
   type |-> IF ptype = "absent" THEN "info" ELSE ptype,
   duration |-> IF duration = 0 THEN DefaultDuration ELSE duration,
   actionUrl |-> url]

\* The popup each kind of frame shows: data.popup, or the one
\* handleDeploymentComplete builds.
PopupOf(frame) ==
  IF frame.type = "deployment_complete"
    THEN Notification("success", 0, frame.url)
    ELSE Notification(frame.ptype, frame.duration, frame.url)

\* There is room for the timer of one more notification: at most cap
\* setTimeout callbacks are pending at a time.
Room(frame, cap) ==
  frame.type \in {"popup_notification", "deployment_complete"} =>
    BagCardinality(timers) < cap

\* websocket.onmessage
OnMessage(frame) ==
  /\ sockState = "open"
  /\ IF ~Mounted THEN
       \* the setters write nothing; showPopupNotification still runs setTimeout
       /\ IF frame.type \in {"popup_notification", "deployment_complete"}
            THEN /\ timers' = timers (+) SetToBag({PopupOf(frame).id})
                 /\ chist' = CNote("popupUnmounted")
            ELSE UNCHANGED <<timers, chist>>
       /\ UNCHANGED <<messages, processing, showTextInput, notifications>>
     ELSE IF frame.type = "chat_response" THEN
       /\ Len(messages) < MaxMessages
       /\ messages' = AddMessage(messages, Message("bot", "reply", frame.buttons))
       /\ processing' = FALSE
       /\ showTextInput' = ShowTextInputAfter(frame)
       /\ chist' = CHist("chat_response", "none", frame)
       /\ UNCHANGED <<notifications, timers>>
     ELSE IF frame.type \in {"popup_notification", "deployment_complete"} THEN
       /\ notifications' = Append(notifications, PopupOf(frame))
       /\ timers' = timers (+) SetToBag({PopupOf(frame).id})
       /\ chist' = CHist("popup", "none", frame)
       /\ UNCHANGED <<messages, processing, showTextInput>>
     ELSE
       /\ chist' = CHist("ignored", "none", frame)
       /\ UNCHANGED <<messages, processing, showTextInput, notifications, timers>>
  /\ UNCHANGED <<chatPhase, inputValue, ws, connected, sockState>>
  /\ awaiting' = IF frame.type = "chat_response" THEN FALSE ELSE awaiting
  /\ UNCHANGED <<authVars, dashVars, otherTab, missed>>

\* websocket.onerror; the close event follows.
SocketError ==
  /\ sockState \in {"connecting", "open"}
  /\ sockState' = "errored"
  /\ IF Mounted
       THEN /\ Len(messages) < MaxMessages
            /\ connected' = FALSE
            /\ processing' = FALSE
            /\ messages' = AddMessage(messages, Message("system", "Connection error", <<>>))
            /\ chist' = CHist("error", "none", NoFrame)
       ELSE UNCHANGED <<connected, processing, messages, chist>>
  /\ UNCHANGED <<chatPhase, inputValue, ws, notifications, showTextInput, timers>>
  /\ awaiting' = FALSE
  /\ UNCHANGED <<authVars, dashVars, otherTab, missed>>

\* websocket.onclose
SocketClose ==
  /\ sockState \in {"connecting", "open", "errored"}
  /\ sockState' = "closed"
  /\ IF Mounted
       THEN connected' = FALSE /\ processing' = FALSE /\ chist' = CNote("other")
       ELSE UNCHANGED <<connected, processing, chist>>
  /\ UNCHANGED <<chatPhase, messages, inputValue, ws, notifications,
                 showTextInput, timers>>
  /\ awaiting' = FALSE
  /\ UNCHANGED <<authVars, dashVars, otherTab, missed>>

\* The TextField is rendered when showTextInput and enabled when connected
\* and not processing (lines 372-392).
TextFieldEnabled == Mounted /\ showTextInput /\ connected /\ ~processing

\* onChange of the TextField
SetInputValue(v) ==
  /\ TextFieldEnabled
  /\ v # inputValue
  /\ inputValue' = v
  /\ chist' = CNote("other")
  /\ UNCHANGED <<chatPhase, messages, ws, connected, processing, notifications,
                 showTextInput, sockState, timers>>
  /\ UNCHANGED <<authVars, dashVars, otherTab, missed, awaiting>>

\* sendMessage goes on past: if (!messageToSend || !ws || !connected) return
CanSend(messageToSend) ==
  ~(messageToSend = "" \/ ws = NoSocket \/ ~connected)

\* sendMessage(message): message || inputValue.trim(), then the early return.
SendMessage(message) ==
  LET messageToSend == IF message # "" THEN message ELSE Trim(inputValue) IN
  /\ CanSend(messageToSend)
  /\ Len(messages) < MaxMessages
  /\ messages' = AddMessage(messages, Message("user", messageToSend, <<>>))
  /\ processing' = TRUE
  /\ inputValue' = ""
  /\ chist' = CHist("sendMessage", "chat_message", NoFrame)
  /\ UNCHANGED <<chatPhase, ws, connected, notifications, showTextInput,
                 sockState, timers>>
  /\ awaiting' = TRUE
  /\ UNCHANGED <<authVars, dashVars, otherTab, missed>>

\* Enter in the TextField (handleKeyPress) or the send button: sendMessage().
SendTyped ==
  /\ TextFieldEnabled
  /\ SendMessage("")

\* Buttons that stay enabled while a reply is awaited.
ButtonEnabled_whileProcessing(i, value) ==
  /\ Mounted
  /\ i \in 1..Len(messages)
  /\ value \in Range(messages[i].buttons)

\* The buttons of every message are rendered, enabled when not processing
\* (lines 330-350).
ButtonEnabled(i, value) ==
  /\ Mounted
  /\ ~processing
  /\ i \in 1..Len(messages)
  /\ value \in Range(messages[i].buttons)

\* handleButtonClick, from a rendered button.
HandleButtonClick(i, value) ==
  /\ ButtonEnabled(i, value)
  /\ SendMessage(value)

\* clearChat never sends the clear signal.
ClearSendsFrame_never == FALSE

\* clearChat: if (ws && connected) ws.send(clear_conversation)
ClearSendsFrame == ws # NoSocket /\ connected

\* clearChat leaves the input mode as it was.
ShowTextInputAfterClear_kept == showTextInput

\* clearChat: setShowTextInput(true)
ShowTextInputAfterClear == TRUE

\* clearChat, from the header button (disabled while processing).
ClearChat ==
  /\ Mounted
  /\ ~processing
  /\ messages' = <<>>
  /\ showTextInput' = ShowTextInputAfterClear
  /\ processing' = FALSE
  /\ chist' = CHist("clearChat",
                    IF ClearSendsFrame THEN "clear_conversation" ELSE "none",
                    NoFrame)
  /\ UNCHANGED <<chatPhase, inputValue, ws, connected, notifications,
                 sockState, timers>>
  /\ UNCHANGED <<authVars, dashVars, otherTab, missed, awaiting>>

\* A filter that removes nothing.
WithoutId_keepsAll(ns, id) == ns

\* prev.filter(n => n.id !== id)
WithoutId(ns, id) ==
  LET Keep(n) == n.id # id IN SelectSeq(ns, Keep)

\* The setTimeout callback of showPopupNotification.
TimerFire(id) ==
  /\ BagIn(id, timers)
  /\ timers' = timers (-) SetToBag({id})
  /\ notifications' = IF Mounted THEN WithoutId(notifications, id) ELSE notifications
  /\ chist' = IF Mounted /\ WithoutId(notifications, id) # notifications
                THEN CNoteId("timerRemoved", id) ELSE CNote("other")
  /\ UNCHANGED <<chatPhase, messages, inputValue, ws, connected, processing,
                 showTextInput, sockState>>
  /\ UNCHANGED <<authVars, dashVars, otherTab, missed, awaiting>>

\* closeNotification, from the close icon of a notification.
CloseNotification(i) ==
  /\ Mounted
  /\ i \in 1..Len(notifications)
  /\ notifications' = WithoutId(notifications, notifications[i].id)
  /\ chist' = CNoteId("closeNotification", notifications[i].id)
  /\ UNCHANGED <<chatPhase, messages, inputValue, ws, connected, processing,
                 showTextInput, sockState, timers>>
  /\ UNCHANGED <<authVars, dashVars, otherTab, missed, awaiting>>

\* handleNotificationAction, from the "Open Console" button: shown only for
\* a notification with an actionUrl; window.open, then closeNotification.
HandleNotificationAction(i) ==
  /\ i \in 1..Len(notifications)
  /\ notifications[i].actionUrl # "absent"
  /\ CloseNotification(i)

\* Two tabs of one browser run two Chat instances, each with its own state
\* cells, socket and timers; localStorage and the clock are shared.  The
\* handlers above act on the tab in focus; otherTab holds the second tab.
ThisTab ==
  [chatPhase |-> chatPhase, messages |-> messages, inputValue |-> inputValue,
   ws |-> ws, connected |-> connected, processing |-> processing,
   notifications |-> notifications, showTextInput |-> showTextInput,
   sockState |-> sockState, timers |-> timers, chist |-> chist,
   awaiting |-> awaiting]

\* A tab in which Chat has not rendered yet: the useState initial values.
FreshTab ==
  [chatPhase |-> "new", messages |-> <<>>, inputValue |-> "",
   ws |-> NoSocket, connected |-> FALSE, processing |-> FALSE,
   notifications |-> <<>>, showTextInput |-> TRUE,
   sockState |-> "none", timers |-> EmptyBag, chist |-> CNote("other"),
   awaiting |-> FALSE]

\* The next handler to run belongs to the other tab.
SwitchTab ==
  /\ otherTab' = ThisTab
  /\ chatPhase' = otherTab.chatPhase
  /\ messages' = otherTab.messages
  /\ inputValue' = otherTab.inputValue
  /\ ws' = otherTab.ws
  /\ connected' = otherTab.connected
  /\ processing' = otherTab.processing
  /\ notifications' = otherTab.notifications
  /\ showTextInput' = otherTab.showTextInput
  /\ sockState' = otherTab.sockState
  /\ timers' = otherTab.timers
  /\ chist' = otherTab.chist
  /\ awaiting' = otherTab.awaiting
  /\ UNCHANGED <<authVars, dashVars, missed>>

\* The notification dispatcher of the server, deliver(event), for a
\* deployment that completes while the user has no open connection.  With a
\* connection open the event arrives as a deployment_complete frame
\* (OnMessage); with none the event has no offline-delivery path and is not
\* kept for a later connection.
DeliverOffline ==
  /\ sockState # "open"
  /\ ~missed
  /\ missed' = TRUE
  /\ UNCHANGED <<authVars, dashVars, chatPhase, chatState, sockState, timers,
                 chist, awaiting, otherTab>>

\* The wall clock, while the Chat page is shown.
ChatTick ==
  /\ now < MaxClock
  /\ now' = now + 1
  /\ UNCHANGED <<authVars, dateZero, clearStamp, store, dashMounted, dashState,
                 fetches, dhist>>
  /\ UNCHANGED chatVars

\* ------------------------------------------------------------ specification
\* Every state cell at its useState initial value, nothing rendered yet.
FreshPage ==
  /\ now = 1
  /\ clearStamp = [k \in StampKeys |-> NullItem]
  /\ authLoading = FALSE
  /\ authReqs = {}
  /\ navPending = FALSE
  /\ store = {}
  /\ dashMounted = FALSE
  /\ requests = <<>>
  /\ loading = TRUE
  /\ error = ""
  /\ clearDialogOpen = FALSE
  /\ clearing = FALSE
  /\ clearSuccess = FALSE
  /\ refreshing = FALSE
  /\ fetches = EmptyBag
  /\ dhist = DNote("other")
  /\ chatPhase = "new"
  /\ messages = <<>>
  /\ inputValue = ""
  /\ ws = NoSocket
  /\ connected = FALSE
  /\ processing = FALSE
  /\ notifications = <<>>
  /\ showTextInput = TRUE
  /\ sockState = "none"
  /\ timers = EmptyBag
  /\ chist = CNote("other")
  /\ awaiting = FALSE
  /\ otherTab = FreshTab
  /\ missed = FALSE

\* The page as first loaded: nobody is logged in.
Init ==
  /\ FreshPage
  /\ dateZero \in {Y2K, NaN}
  /\ token = NoToken
  /\ authHeader = NoToken
  /\ user = NoUser

NextDash ==
  \/ \E u \in Users : AuthStep(VerifyOTPStart(u))
  \/ \E r \in authReqs : AuthStep(VerifyOTPOk(r))
  \/ \E r \in authReqs : AuthStep(VerifyOTPFail(r))
  \/ \E r \in authReqs : AuthStep(FetchProfileOk(r))
  \/ \E r \in authReqs : AuthStep(FetchProfileFail(r))
  \/ HandleBackToLogin
  \/ PageLoad
  \/ DashboardMount
  \/ DashboardUnmount
  \/ HandleRefresh
  \/ DismissError
  \/ DismissClearSuccess
  \/ OpenClearDialog
  \/ CancelClearDialog
  \/ \E w \in BOOLEAN : ClearHistory(w)
  \/ \E f \in BagToSet(fetches) : \E r \in Responses(f.auth, f.sentAt) : FetchResolve(f, r)
  \/ \E f \in BagToSet(fetches) : \E r \in Responses(NoToken, 0) \cup {Resp("nodata", 200, <<>>)} : OrphanResolve(f, r)
  \/ Tick
  \/ BackendCreate

SpecDash == Init /\ [][NextDash]_vars

\* The Chat page of a browser that holds a token (a user logged in earlier)
\* or holds none.  Chat reads only whether there is a token, and parses no
\* date, so the browser's reading of '0' plays no part.
InitChat ==
  /\ FreshPage
  /\ dateZero = Y2K
  /\ token \in {"u1", NoToken}
  /\ authHeader = token
  /\ user = token

NextChat ==
  \/ ChatMount
  \/ ChatUnmount
  \/ SocketOpen
  \/ \E frame \in Frames : Room(frame, MaxNotifs) /\ OnMessage(frame)
  \/ SocketError
  \/ SocketClose
  \/ \E v \in InputTexts : SetInputValue(v)
  \/ SendTyped
  \/ \E i \in 1..MaxMessages, value \in ButtonValues : HandleButtonClick(i, value)
  \/ ClearChat
  \/ \E id \in 1..MaxClock : TimerFire(id)
  \/ \E i \in 1..MaxNotifs : CloseNotification(i)
  \/ \E i \in 1..MaxNotifs : HandleNotificationAction(i)
  \/ ChatTick

SpecChat == InitChat /\ [][NextChat]_vars

\* The browser runs every timer callback that is due.
TimersRun == \A id \in 1..MaxClock : WF_vars(TimerFire(id))

\* Chat with the timers of the browser running.
SpecChatLive == SpecChat /\ TimersRun

\* Chat and the server's dispatcher of completion events.
NextDispatch ==
  \/ NextChat
  \/ DeliverOffline

SpecDispatch == InitChat /\ [][NextDispatch]_vars /\ TimersRun

\* Chat receiving and dismissing notifications, with room for one more
\* than SpecChat admits so that several are on screen together; the
\* conversation is covered by SpecChat.
NextNotify ==
  \/ ChatMount
  \/ ChatUnmount
  \/ SocketOpen
  \/ \E frame \in PopupFrames \cup DeploymentFrames :
       Room(frame, MaxNotifs + 1) /\ OnMessage(frame)
  \/ SocketClose
  \/ \E id \in 1..MaxClock : TimerFire(id)
  \/ \E i \in 1..(MaxNotifs + 1) : CloseNotification(i)
  \/ \E i \in 1..(MaxNotifs + 1) : HandleNotificationAction(i)
  \/ ChatTick

SpecNotify == InitChat /\ [][NextNotify]_vars

\* Two tabs of a logged-in user exchanging messages with the assistant.
\* Notifications, timers and unmounting are per tab and are covered by
\* SpecChat; here each tab connects, sends, receives replies and clears.
InitTabs ==
  /\ InitChat
  /\ token \in Users

NextTabs ==
  \/ ChatMount
  \/ SocketOpen
  \/ \E frame \in ChatResponses : OnMessage(frame)
  \/ SocketClose
  \/ \E v \in InputTexts : SetInputValue(v)
  \/ SendTyped
  \/ \E i \in 1..MaxMessages, value \in ButtonValues : HandleButtonClick(i, value)
  \/ ClearChat
  \/ SwitchTab

SpecTabs == InitTabs /\ [][NextTabs]_vars

\* ------------------------------------------------------ Dashboard properties
\* The clear timestamp stored for the user the Dashboard is rendered for.
StoredStamp == clearStamp[UserKey(user)]
HasStamp == dashMounted /\ StoredStamp # NullItem
CreatedAt(rec) == rec.created_at.v

\* s lists elements of t, each once, in the order t lists them.
IsSubSeq(s, t) ==
  \E pos \in [1..Len(s) -> 1..Len(t)] :
    /\ \A i \in 1..Len(s) : s[i] = t[pos[i]]
    /\ \A i, j \in 1..Len(s) : i < j => pos[i] < pos[j]

FetchSucceeded == dhist.op = "fetchDone" /\ IsSuccess(dhist.resp)

\* C1: right after a fetchRequests that completed successfully for a user
\* with a stored clear timestamp, the displayed list is the fetched list
\* restricted to the records created strictly after that timestamp: a
\* record is displayed iff its created_at is later, in the fetched order.
C1_VisibleIffAfterClear ==
  (FetchSucceeded /\ HasStamp) =>
    /\ \A rec \in Range(dhist.resp.data) :
         rec \in Range(requests) <=> CreatedAt(rec) > StoredStamp.v
    /\ IsSubSeq(requests, dhist.resp.data)

\* C1 witness: a successful fetch, after a clear, that was given a record
\* created at (not after) the clear and one created after it, and shows
\* the second only.
C1_Witness ==
  /\ FetchSucceeded /\ HasStamp
  /\ \E a, b \in Range(dhist.resp.data) :
       /\ CreatedAt(a) = StoredStamp.v /\ a \notin Range(requests)
       /\ CreatedAt(b) > StoredStamp.v /\ b \in Range(requests)

\* C2: whatever the interleaving of clearHistory with pending fetchRequests
\* calls, the displayed list never holds a record created at or before the
\* stored clear timestamp.
C2_NoClearedRecordShown ==
  HasStamp => \A rec \in Range(requests) : CreatedAt(rec) > StoredStamp.v

\* C2 witness: a fetchRequests that was awaiting its response when
\* clearHistory ran has finished, its response held a record created at or
\* before the clear, and the list does not show it.
C2_Witness ==
  /\ FetchSucceeded /\ dhist.raced /\ HasStamp
  /\ \E rec \in Range(dhist.resp.data) : CreatedAt(rec) <= StoredStamp.v
  /\ requests # <<>>

ClearStep == dhist'.op \in {"clearOk", "clearFailed"}

\* C3: a clearHistory step leaves the backend's records as they were.
C3_ClearKeepsRecords == [][ClearStep => store' = store]_vars

\* C3 witness: clearHistory has just emptied the display while the backend
\* still holds records.
C3_Witness == dhist.op = "clearOk" /\ requests = <<>> /\ store # {}

\* C4: a stored clear timestamp is never removed and never replaced by an
\* earlier one, for any user, by any step.
C4_StampMonotonic ==
  [][\A k \in StampKeys :
       clearStamp[k] # NullItem =>
         /\ clearStamp'[k] # NullItem
         /\ NewDate(clearStamp'[k]) >= NewDate(clearStamp[k])]_vars

\* C4 witness: two users have cleared, one before a logout and the other
\* after the next login, at different times.
C4_Witness ==
  /\ dhist.op = "clearOk"
  /\ \E k \in Users \ {user} :
       clearStamp[k] # NullItem /\ StoredStamp.v > clearStamp[k].v

\* C5 (as claimed): a clearHistory whose timestamp write fails leaves
\* clearSuccess and the stored timestamps alone and reports an error.
C5_FailedClearReportsError ==
  [][dhist'.op = "clearFailed" =>
       /\ clearSuccess' = clearSuccess
       /\ clearStamp' = clearStamp
       /\ error' # ""]_vars

\* C6 (as claimed): after every failed getRequests call an error is shown
\* and loading and refreshing are false.
C6_EveryFailureShowsError ==
  (dhist.op = "fetchDone" /\ dhist.resp.kind = "error") =>
    error # "" /\ ~loading /\ ~refreshing

\* C6 (amended): after a failed getRequests call, an error is shown unless
\* the status is 404, in which case the list is empty; loading and
\* refreshing are false and the refresh button is enabled.
C6_FailureShowsErrorExcept404 ==
  (dhist.op = "fetchDone" /\ dhist.resp.kind = "error") =>
    /\ dhist.resp.status # 404 => error # ""
    /\ dhist.resp.status = 404 => requests = <<>>
    /\ ~loading /\ ~refreshing
    /\ TableShown

\* C6 witness: the backend was unreachable and the error is shown.
C6_Witness ==
  /\ dhist.op = "fetchDone" /\ dhist.resp.kind = "error" /\ dhist.resp.status = 0
  /\ error = "Failed to fetch requests. Please try again."
  /\ ~loading /\ ~refreshing

\* ----------------------------------------------------------- Chat properties
\* C7: a clearChat that sends a clear_conversation frame leaves messages
\* empty and the text input shown, whatever the input mode was before, and
\* leaves the connection as it was: ws still set, connected still true, the
\* socket still open.
C7_ClearResetsAndKeepsConnection ==
  (chist.op = "clearChat" /\ chist.sent = "clear_conversation") =>
    /\ messages = <<>>
    /\ showTextInput = TRUE
    /\ ws = TheSocket
    /\ connected = TRUE
    /\ sockState = "open"

\* A clearChat over an open connection, of a non-empty conversation that was
\* in Choice mode (text input hidden).
C7_Witness ==
  /\ chist.op = "clearChat"
  /\ chist.sent = "clear_conversation"
  /\ chist.prevLen > 0
  /\ chist.prevShow = FALSE
  /\ messages = <<>>
  /\ showTextInput = TRUE

\* C8 as stated: every clearChat that empties the local sequence also sends
\* a clear_conversation frame, in every connection state.
C8_EveryClearSignals ==
  chist.op = "clearChat" => chist.sent = "clear_conversation"

\* C8 as the code has it: a clearChat empties the local sequence in every
\* connection state, and sends a clear_conversation frame exactly when ws is
\* set and connected is true.
C8_ClearSignalsIffConnected ==
  chist.op = "clearChat" =>
    /\ messages = <<>>
    /\ chist.sent = "clear_conversation" <=> (ws # NoSocket /\ connected)

\* A clearChat of a non-empty conversation after the connection closed:
\* nothing is sent.
C8_Witness ==
  /\ chist.op = "clearChat"
  /\ chist.prevLen > 0
  /\ sockState = "closed"
  /\ ~connected
  /\ chist.sent = "none"
  /\ messages = <<>>

\* C9: every step leaves messages unchanged, appends exactly one message to
\* it, or is a clearChat that empties it.
C9_MessagesAppendOnly ==
  [][ \/ messages' = messages
      \/ /\ Len(messages') = Len(messages) + 1
         /\ SubSeq(messages', 1, Len(messages)) = messages
      \/ chist'.op = "clearChat" /\ messages' = <<>> ]_vars

\* A reply appended after the user's message.
C9_Witness ==
  /\ chist.op = "chat_response"
  /\ chist.prevLen = 1
  /\ Len(messages) = 2
  /\ messages[1].type = "user"
  /\ messages[2].type = "bot"

LastBotButtons(ms) ==
  LET bots == {i \in 1..Len(ms) : ms[i].type = "bot"} IN
  IF bots = {} THEN <<>>
  ELSE ms[CHOOSE i \in bots : \A j \in bots : j <= i].buttons

\* C11: while the text input is hidden, a chat_message that was sent carries
\* the value of a button of the most recent assistant message, and a value
\* that only an earlier message offers cannot be submitted: no enabled
\* button passes it to sendMessage.
C11_ChoiceSubmitsLastOptions ==
  /\ (chist.op = "sendMessage" /\ ~chist.prevShow) =>
       messages[Len(messages)].content \in
         Range(LastBotButtons(SubSeq(messages, 1, Len(messages) - 1)))
  /\ (Mounted /\ ~showTextInput) =>
       \A i \in 1..Len(messages), value \in ButtonValues :
         (ButtonEnabled(i, value) /\ CanSend(value)) =>
           value \in Range(LastBotButtons(messages))

\* C12: across the two tabs of a user at most one chat_message is in flight:
\* the tabs are never both waiting for a chat_response.
C12_OneMessageInFlight ==
  ~(processing /\ otherTab.processing)

\* The user messages a view shows, in order.
UserMessages(ms) ==
  LET IsUser(m) == m.type = "user" IN SelectSeq(ms, IsUser)

\* A rendered, connected tab that is not waiting for a reply.
TabIdle(tab) ==
  tab.chatPhase = "mounted" /\ tab.connected /\ ~tab.processing

\* C18: two connected views of a user show the same conversation: once
\* neither is waiting for a reply, the user messages of one are the user
\* messages of the other, in the same order.
C18_ViewsShowSameConversation ==
  (TabIdle(ThisTab) /\ TabIdle(otherTab)) =>
    UserMessages(messages) = UserMessages(otherTab.messages)

\* The notifications on screen (rendered by Chat, lines 432-459).
NotificationsShown == IF Mounted THEN notifications ELSE <<>>

\* C13: a deployment_complete or popup_notification frame that arrives
\* after Chat was unmounted still puts a notification on screen.
C13_NotifiedAfterUnmount ==
  chist.op = "popupUnmounted" => NotificationsShown # <<>>

\* The notification of a completed deployment is on screen.
DeploymentShown ==
  \E i \in 1..Len(NotificationsShown) : NotificationsShown[i].type = "success"

\* C14: a completion event that found no open connection is displayed once
\* the user has connected, if the user stays on the Chat page and the
\* connection stays open.
C14_MissedEventDisplayed ==
  (missed /\ Mounted /\ sockState = "open" /\ connected)
    ~> (DeploymentShown \/ ~Mounted \/ sockState # "open")

\* C15: after closeNotification no timer of the closed notification is
\* still scheduled.
C15_CloseCancelsTimer ==
  chist.op = "closeNotification" => ~BagIn(chist.id, timers)

\* The notification with this id is on screen.
Shown(id) ==
  \E i \in 1..Len(NotificationsShown) : NotificationsShown[i].id = id

\* C16: every notification on screen is removed from it again without any
\* user action: its timer runs and filters it out.
C16_NotificationExpires ==
  \A id \in 1..MaxClock : Shown(id) ~> ~Shown(id)

\* A timer callback has just removed a notification from the screen.
C16_Witness ==
  /\ chist.op = "timerRemoved"
  /\ Mounted
  /\ ~Shown(chist.id)
  /\ ~BagIn(chist.id, timers)

NewestFirst(rs) ==
  \A i \in 1..Len(rs), j \in 1..Len(rs) :
    i < j => CreatedAt(rs[i]) >= CreatedAt(rs[j])

\* C19: the list fetchRequests displays is ordered newest first, whatever
\* order the store returned the records in.
C19_NewestFirst ==
  FetchSucceeded => NewestFirst(requests)

\* C20: a frame of an unknown kind produces an error indication: a system
\* message is appended, an error notification is on screen, or a frame goes
\* back to the sender.
C20_UnknownFrameReported ==
  chist.op = "ignored" =>
    \/ Len(messages) > chist.prevLen
    \/ \E i \in 1..Len(notifications) : notifications[i].type = "error"
    \/ chist.sent # "none"

\* A step in which the client sends a chat_message.
SendStep == chist'.op = "sendMessage" /\ messages' # messages

\* C21: on one connection the client sends no chat_message while an earlier
\* one still awaits its chat_response, close or error: every send starts
\* from a state with none awaited, and while one is awaited the rendered
\* view is processing, with the text field and every button disabled.
C21_NoSendWhileAwaiting ==
  [][ /\ SendStep => ~awaiting
      /\ (awaiting /\ Mounted) =>
           /\ processing
           /\ ~TextFieldEnabled
           /\ \A i \in 1..MaxMessages, value \in ButtonValues : ~ButtonEnabled(i, value) ]_vars

\* A chat_message sent by a button awaits its reply: the buttons are still
\* on screen, disabled, and so is the text field.
C21_Witness ==
  /\ chist.op = "sendMessage"
  /\ awaiting /\ processing /\ Mounted /\ connected /\ showTextInput
  /\ Len(messages) = 2
  /\ messages[1].buttons # <<>>
  /\ messages[2].type = "user"
  /\ ~TextFieldEnabled

\* C25: once Chat is unmounted the connection it opened is not open any
\* more, and no frame runs the handlers of the unmounted view.
C25_UnmountClosesConnection ==
  chatPhase = "gone" =>
    /\ sockState # "open"
    /\ chist.op # "popupUnmounted"

\* C22: every deployment_complete frame the client receives puts exactly one
\* more notification on screen, of type success and with the frame's
\* console_url as its action URL, behind those already shown, and leaves
\* messages, the input mode and the processing flag as they were.
C22_DeploymentAddsOneSuccess ==
  [][\A frame \in DeploymentFrames :
       OnMessage(frame) =>
         /\ NotificationsShown' # <<>>
         /\ SubSeq(NotificationsShown', 1, Len(NotificationsShown') - 1) = NotificationsShown
         /\ NotificationsShown'[Len(NotificationsShown')].type = "success"
         /\ NotificationsShown'[Len(NotificationsShown')].actionUrl = frame.url
         /\ messages' = messages
         /\ showTextInput' = showTextInput
         /\ processing' = processing]_vars

\* A choice button is on screen.
ButtonDisplayed ==
  \E i \in 1..Len(messages) : messages[i].buttons # <<>>

\* C24: while Chat is connected and not processing the user can submit
\* input: the text input is shown or a choice button is on screen.
C24_AlwaysAWayToAnswer ==
  (Mounted /\ connected /\ ~processing) => (showTextInput \/ ButtonDisplayed)

\* ns without its i-th element.
RemoveAt(ns, i) == SubSeq(ns, 1, i - 1) \o SubSeq(ns, i + 1, Len(ns))

\* C23: closing a notification removes that notification and no other, and
\* a timer callback removes at most the one notification it was set for,
\* also when notifications were created at the same clock reading.
C23_RemovesExactlyThatOne ==
  [][ /\ \A i \in 1..Len(notifications) :
           CloseNotification(i) => notifications' = RemoveAt(notifications, i)
      /\ \A id \in 1..MaxClock :
           (Mounted /\ TimerFire(id)) =>
             \/ notifications' = notifications
             \/ \E i \in 1..Len(notifications) :
                  /\ notifications[i].id = id
                  /\ notifications' = RemoveAt(notifications, i) ]_vars

\* C26: a user is set only while a token is stored, a token is stored only
\* by a verifyOTP whose POST succeeded, and a user is set only from the
\* profile of the stored token; so after logout both stay null until the
\* next successful verifyOTP.
C26_UserOnlyWithToken ==
  [][ /\ user' # NoUser => token' # NoToken
      /\ (token' # NoToken /\ token' # token) =>
           \E r \in authReqs : r.kind = "verify" /\ token' = r.who
      /\ (user' # NoUser /\ user' # user) =>
           \E r \in authReqs : r.kind = "profile" /\ user' = r.who ]_vars

====
